---- MODULE Spec2Model ----
(***************************************************************************)
(* State-machine model of doppl-rs (src/src/main.rs): a Bevy application   *)
(* in which three transmitters emit signal particles that travel along a   *)
(* sinusoidal wave towards three receivers, which plot the received        *)
(* signal.                                                                 *)
(*                                                                         *)
(* Units.  Time is in whole milliseconds (the code itself truncates        *)
(* time.elapsed() to milliseconds, main.rs:230 and :299).  Lengths are in  *)
(* thousandths of a world unit, so that `speed * delta_seconds` is the     *)
(* integer speed * delta_ms.  f32 arithmetic is modelled by exact integer  *)
(* arithmetic; f32::sin by a rational approximation (SinMilli).            *)
(*                                                                         *)
(* Scheduling.  The Update systems are chained (main.rs:118-130); the      *)
(* engine applies a system's deferred Commands before the next system of   *)
(* the chain runs, so every action below applies the commands its system   *)
(* queues.  handle_rx_collision runs in PostUpdate after transform         *)
(* propagation (main.rs:131-135): it is the last step of a frame and sees  *)
(* up-to-date global positions.                                            *)
(***************************************************************************)
EXTENDS Integers, Sequences, FiniteSets, TLC

VARIABLES
    pc,           \* the system that runs next ("frame_start": engine time/input update)
    frame,        \* number of frames started
    elapsed,      \* time.elapsed() in ms
    delta,        \* time.delta() of the current frame in ms
    keyR,         \* input.pressed(KeyCode::KeyR) in the current frame
    base,         \* the run's regular frame time in ms
    budget,       \* what the environment may still do: frames, jitter frames,
                  \* frames for which the R key may still be held
    reset_timer,  \* ResetTimer.timer
    tx,           \* Transmitter entities: id -> components
    rx,           \* Receiver entities: id -> components
    particles,    \* SignalParticle entities: id -> components
    plots,        \* plot-point entities: id -> components
    nextId,       \* next fresh entity id
    events,       \* history: the collisions handled by the last handle_rx_collision
    stats         \* history: reset bookkeeping

vars == <<pc, frame, elapsed, delta, keyR, base, budget, reset_timer, tx, rx,
          particles, plots, nextId, events, stats>>

----------------------------------------------------------------------------
(* Program constants (main.rs:18-46) *)

Milli == 1000

PARTICLE_AMPLITUDE == 50
PARTICLE_RADIUS == 5
PARTICLE_SPEED == -200
PARTICLE_FREQUENCY == 2

RECEIVER_WIDTH == 2 * PARTICLE_AMPLITUDE + 2 * PARTICLE_RADIUS
RECEIVER_HEIGHT == 2 * RECEIVER_WIDTH
RECEIVER_TIME_SCALE == (2 * 1) \div PARTICLE_FREQUENCY
RECEIVER_DELTA_X_PER_SECOND == (2 * RECEIVER_WIDTH) \div RECEIVER_TIME_SCALE
RECEIVER_SPEED == 100

PARTICLE_SPAWN_RATE_MS == 10
RESET_TIMER_MS == 10 * Milli

RES_WIDTH == 1280
RES_HEIGHT == 720

TRANSMITTER_X == 400

None == -1

----------------------------------------------------------------------------
(* Bounds of the exploration *)

MaxFrames == 7
MaxJitter == 1
MaxKeyFrames == 2
MaxMidFrames == 16
MaxLongFrames == 82

\* Regular frame times (ms); the engine clamps a frame's delta to 250 ms.
BaseDeltas == {248, 250}
\* Irregular (short) frame times: one below the 10 ms spawn period, one equal to it.
JitterDeltas == {4, 10}

----------------------------------------------------------------------------
(* Helpers *)

Min(S) == CHOOSE m \in S : \A n \in S : m <= n


\* bevy Timer, TimerMode::Repeating
NewTimer == [elapsed |-> 0, finished |-> FALSE]

\* Timer::tick for a repeating timer: the elapsed time wraps modulo the
\* duration, finished() reports whether the timer finished during this tick.
TimerTick(timer, duration, d) ==
    LET e == timer.elapsed + d IN
    IF e >= duration THEN [elapsed |-> e % duration, finished |-> TRUE]
    ELSE [elapsed |-> e, finished |-> FALSE]

\* Timer::reset
TimerReset(timer) == [elapsed |-> 0, finished |-> FALSE]

----------------------------------------------------------------------------
(* The wave formula of propagate_particle *)

\* Angular resolution: phases are kept in units of 1/PhaseRes of a turn.
PhaseRes == Milli \div 2

\* (k*x - 2*PI*f*t) / (2*PI) in units of 1/PhaseRes turn, with k = 2*PI*f/v,
\* x in thousandths of a unit and t in ms: f * (x/v - t) * PhaseRes / 1000.
WavePhase(x, t, frequency, speed) ==
    (PhaseRes * frequency * (((-x) \div (-speed)) - t)) \div Milli

\* 1000 * sin(pi * z / h) for 0 <= z <= h (Bhaskara's rational approximation)
HalfSine(z, h) == (16 * Milli * z * (h - z)) \div (5 * h * h - 4 * z * (h - z))

\* 1000 * sin of a phase given in units of 1/PhaseRes turn
SinMilli(u) ==
    LET h == PhaseRes \div 2
        r == u % PhaseRes
    IN IF r <= h THEN HalfSine(r, h) ELSE -HalfSine(r - h, h)

\* main.rs:232-241: a * sin(k * x - 2 * PI * f * t), a = -amplitude
WaveY(x, t, amplitude, frequency, speed) ==
    (-amplitude) * SinMilli(WavePhase(x, t, frequency, speed))

\* Mutant of AdvanceX: a fixed time step instead of the frame's delta.
AdvanceXFixedStep(x, speed, d) == x + speed * 250

\* main.rs:236: translation.x += speed * time.delta_seconds()
AdvanceX(x, speed, d) == x + speed * d

----------------------------------------------------------------------------
(* Entities *)

\* start_simulation's three create_simulation calls (main.rs:357-385)
SimRows == << [rx_start_x |-> -300, y_pos |-> 200,  movement |-> "Stationary"],
              [rx_start_x |-> -300, y_pos |-> 0,    movement |-> "Right"],
              [rx_start_x |-> 100,  y_pos |-> -200, movement |-> "Left"] >>

\* main.rs:401-416; spawn_point is Vec2::default(), ticked is history
NewTransmitter(y_pos) ==
    [x |-> TRANSMITTER_X * Milli, y |-> y_pos * Milli,
     spawn_point |-> <<0, 0>>, spawn_rate |-> NewTimer, ticked |-> 0]

\* main.rs:418-439; a Stationary receiver gets no Mover component
NewReceiver(rx_start_x, y_pos, movement) ==
    [x |-> rx_start_x * Milli, y |-> y_pos * Milli,
     prev_collision_time |-> None, current_draw_position |-> 0,
     mover |-> IF movement = "Stationary" THEN "NoMover" ELSE movement,
     first_collision_time |-> None]

\* Mutant of NewParticle: the amplitude left at its Default.
NewParticleDefaultAmplitude(parent, spawn_point, t) ==
    [parent |-> parent, x |-> spawn_point[1], y |-> spawn_point[2],
     speed |-> PARTICLE_SPEED, amplitude |-> 0,
     frequency |-> PARTICLE_FREQUENCY, t0 |-> t]

\* main.rs:256-272; t0 (the spawn time) is history
NewParticle(parent, spawn_point, t) ==
    [parent |-> parent, x |-> spawn_point[1], y |-> spawn_point[2],
     speed |-> PARTICLE_SPEED, amplitude |-> PARTICLE_AMPLITUDE,
     frequency |-> PARTICLE_FREQUENCY, t0 |-> t]

\* The entities start_simulation spawns, with ids id0 .. id0+5 in spawn order
\* (transmitter, receiver) per row.
StartTx(id0) ==
    [i \in {id0 + 2 * (k - 1) : k \in 1..Len(SimRows)} |->
        NewTransmitter(SimRows[((i - id0) \div 2) + 1].y_pos)]

StartRx(id0) ==
    [i \in {id0 + 2 * (k - 1) + 1 : k \in 1..Len(SimRows)} |->
        LET row == SimRows[((i - id0) \div 2) + 1]
        IN NewReceiver(row.rx_start_x, row.y_pos, row.movement)]

\* f restricted to the keys in S
Restrict(f, S) == [i \in S |-> f[i]]

\* despawn_recursive of the entities in `gone`: what is left of the children map
WithoutChildrenOf(children, gone) ==
    Restrict(children, {c \in DOMAIN children : children[c].parent \notin gone})

\* Mutants of ResetDespawnTx and ResetDespawnRx: the loop is missing.
ResetDespawnNoTx == {}
ResetDespawnNoRx == {}

\* reset_simulation / reset_simulation_timer (main.rs:453-461, 476-484):
\* the transmitters and receivers each query yields are despawned recursively.
ResetDespawnTx == DOMAIN tx
ResetDespawnRx == DOMAIN rx

----------------------------------------------------------------------------
(* Initial state: after the Startup schedule (setup, main.rs:139-167) *)

InitWorld ==
    /\ pc = "frame_start"
    /\ frame = 0
    /\ elapsed = 0
    /\ delta = 0
    /\ keyR = FALSE
    /\ reset_timer = NewTimer
    /\ tx = StartTx(0)
    /\ rx = StartRx(0)
    /\ particles = << >>
    /\ plots = << >>
    /\ nextId = 2 * Len(SimRows)
    /\ events = << >>
    /\ stats = [since_key |-> 0,      \* frame time since startup or the last R frame
                since_reset |-> 0,    \* frame time since the last frame with a reset
                acc |-> 0,            \* frame time since startup or the last reset
                last_gap |-> 0,       \* acc when the timed reset last fired
                manual_resets |-> 0,  \* number of R-key resets
                timed_resets |-> 0,   \* number of timed resets
                key_streak |-> 0,     \* consecutive frames with R down
                timed_fired |-> FALSE,\* the timed reset fired in this frame
                id_at_reset |-> 0,    \* nextId when the last R-key reset began
                manual_removed |-> [particles |-> 0, plots |-> 0],
                                      \* children the last R-key reset despawned
                reset_removed |-> 0,  \* particles despawned by resets so far
                dead |-> {},          \* transmitters and receivers despawned so far
                double_despawn |-> FALSE]
                                      \* a despawn command named a dead entity

Init ==
    /\ InitWorld
    /\ base \in BaseDeltas
    /\ budget = [frames |-> MaxFrames, jitter |-> MaxJitter, keys |-> MaxKeyFrames]

----------------------------------------------------------------------------
(* The engine's per-frame time and input update (App::run, main.rs:136):   *)
(* the environment picks the frame's delta and whether R is down.  A run   *)
(* has one R key press, held for at most budget.keys consecutive frames.   *)

BeginFrame ==
    /\ pc = "frame_start"
    /\ budget.frames > 0
    /\ \E d \in {base} \cup JitterDeltas, k \in BOOLEAN :
          /\ d # base => budget.jitter > 0
          /\ k => budget.keys > 0
          /\ delta' = d
          /\ keyR' = k
          /\ elapsed' = elapsed + d
          /\ budget' = [frames |-> budget.frames - 1,
                        jitter |-> IF d # base THEN budget.jitter - 1 ELSE budget.jitter,
                        keys |-> IF k THEN budget.keys - 1
                                 ELSE IF keyR THEN 0 ELSE budget.keys]
    /\ frame' = frame + 1
    /\ pc' = "propagate_particle"
    /\ UNCHANGED <<base, reset_timer, tx, rx, particles, plots, nextId, events, stats>>

----------------------------------------------------------------------------
(* propagate_particle (main.rs:228-243) *)

\* One particle's update: y is computed from the x read before the x update.
Propagated(p) ==
    LET t == elapsed
        x == p.x
    IN [p EXCEPT !.x = AdvanceX(x, p.speed, delta),
                 !.y = WaveY(x, t, p.amplitude, p.frequency, p.speed)]

propagate_particle ==
    /\ pc = "propagate_particle"
    /\ particles' = [i \in DOMAIN particles |-> Propagated(particles[i])]
    /\ pc' = "produce_particle"
    /\ UNCHANGED <<frame, elapsed, delta, keyR, base, budget, reset_timer, tx, rx,
                   plots, nextId, events, stats>>

----------------------------------------------------------------------------
(* produce_particle (main.rs:245-277) *)

\* Mutant of SpawnCount: one particle per period completed during the tick
\* (times_finished_this_tick).
SpawnCountPerPeriod(timer_before, ticked) ==
    (timer_before.elapsed + delta) \div PARTICLE_SPAWN_RATE_MS

\* The number of particles a transmitter spawns in a frame, given its timer
\* before and after the tick: one if the timer finished during the tick.
SpawnCount(timer_before, ticked) == IF ticked.finished THEN 1 ELSE 0

RECURSIVE SumOver(_, _)
SumOver(f, S) == IF S = {} THEN 0
                 ELSE LET m == Min(S) IN f[m] + SumOver(f, S \ {m})

produce_particle ==
    /\ pc = "produce_particle"
    /\ LET ticked == [t \in DOMAIN tx |->
                         TimerTick(tx[t].spawn_rate, PARTICLE_SPAWN_RATE_MS, delta)]
           count  == [t \in DOMAIN tx |-> SpawnCount(tx[t].spawn_rate, ticked[t])]
           offset == [t \in DOMAIN tx |-> SumOver(count, {s \in DOMAIN tx : s < t})]
           total  == SumOver(count, DOMAIN tx)
           parentOf(i) == CHOOSE t \in DOMAIN tx :
                             /\ offset[t] <= i - nextId
                             /\ i - nextId < offset[t] + count[t]
       IN /\ tx' = [t \in DOMAIN tx |->
                       [tx[t] EXCEPT !.spawn_rate = ticked[t], !.ticked = @ + delta]]
          /\ particles' = particles @@
                [i \in nextId .. (nextId + total - 1) |->
                    NewParticle(parentOf(i), tx[parentOf(i)].spawn_point, elapsed)]
          /\ nextId' = nextId + total
    /\ pc' = "move_rx"
    /\ UNCHANGED <<frame, elapsed, delta, keyR, base, budget, reset_timer, rx,
                   plots, events, stats>>

----------------------------------------------------------------------------
(* move_rx (main.rs:341-350): only receivers that have a Mover are moved *)

Direction(movement) ==
    CASE movement = "Left" -> -1
      [] movement = "Right" -> 1
      [] OTHER -> 0

move_rx ==
    /\ pc = "move_rx"
    /\ rx' = [r \in DOMAIN rx |->
                 IF rx[r].mover = "NoMover" THEN rx[r]
                 ELSE [rx[r] EXCEPT !.x = @ + Direction(rx[r].mover) * RECEIVER_SPEED * delta]]
    /\ pc' = "reset_simulation"
    /\ UNCHANGED <<frame, elapsed, delta, keyR, base, budget, reset_timer, tx,
                   particles, plots, nextId, events, stats>>

----------------------------------------------------------------------------
(* reset_simulation (main.rs:442-463), reset_simulation_timer (465-486) *)

\* The despawn_recursive loops followed by start_simulation, with the
\* commands applied.
DespawnAndRestart ==
    /\ tx' = Restrict(tx, DOMAIN tx \ ResetDespawnTx) @@ StartTx(nextId)
    /\ rx' = Restrict(rx, DOMAIN rx \ ResetDespawnRx) @@ StartRx(nextId)
    /\ particles' = WithoutChildrenOf(particles, ResetDespawnTx)
    /\ plots' = WithoutChildrenOf(plots, ResetDespawnRx)
    /\ nextId' = nextId + 2 * Len(SimRows)

\* History of the despawn commands a reset queues.
Despawning(resetting) == IF resetting THEN ResetDespawnTx \cup ResetDespawnRx ELSE {}

reset_simulation ==
    /\ pc = "reset_simulation"
    /\ IF keyR
       THEN /\ reset_timer' = TimerReset(reset_timer)
            /\ DespawnAndRestart
       ELSE UNCHANGED <<reset_timer, tx, rx, particles, plots, nextId>>
    /\ stats' = [stats EXCEPT
                    !.manual_resets = IF keyR THEN @ + 1 ELSE @,
                    !.key_streak = IF keyR THEN @ + 1 ELSE 0,
                    !.id_at_reset = IF keyR THEN nextId ELSE @,
                    !.since_key = IF keyR THEN 0 ELSE @,
                    !.acc = IF keyR THEN 0 ELSE @,
                    !.dead = @ \cup Despawning(keyR),
                    !.double_despawn = @ \/ (Despawning(keyR) \cap stats.dead # {}),
                    !.manual_removed = IF keyR
                        THEN [particles |-> Cardinality(DOMAIN particles \ DOMAIN particles'),
                              plots |-> Cardinality(DOMAIN plots \ DOMAIN plots')]
                        ELSE @,
                    !.reset_removed =
                        @ + Cardinality(DOMAIN particles \ DOMAIN particles')]
    /\ pc' = "reset_simulation_timer"
    /\ UNCHANGED <<frame, elapsed, delta, keyR, base, budget, events>>

\* Mutant of ResetTimerTick: a finished timer restarts from zero.
ResetTimerTickFromZero(timer, d) ==
    IF timer.elapsed + d >= RESET_TIMER_MS
    THEN [elapsed |-> 0, finished |-> TRUE]
    ELSE [elapsed |-> timer.elapsed + d, finished |-> FALSE]

\* main.rs:474: reset_timer.timer.tick(time.delta())
ResetTimerTick(timer, d) == TimerTick(timer, RESET_TIMER_MS, d)

reset_simulation_timer ==
    /\ pc = "reset_simulation_timer"
    /\ reset_timer' = ResetTimerTick(reset_timer, delta)
    /\ IF reset_timer'.finished
       THEN DespawnAndRestart
       ELSE UNCHANGED <<tx, rx, particles, plots, nextId>>
    /\ stats' = [stats EXCEPT
                    !.since_key = @ + delta,
                    !.acc = IF reset_timer'.finished THEN 0 ELSE @ + delta,
                    !.last_gap = IF reset_timer'.finished THEN stats.acc + delta ELSE @,
                    !.dead = @ \cup Despawning(reset_timer'.finished),
                    !.double_despawn =
                        @ \/ (Despawning(reset_timer'.finished) \cap stats.dead # {}),
                    !.reset_removed =
                        @ + Cardinality(DOMAIN particles \ DOMAIN particles'),
                    !.since_reset = IF reset_timer'.finished \/ keyR THEN 0 ELSE @ + delta,
                    !.timed_resets = IF reset_timer'.finished THEN @ + 1 ELSE @,
                    !.timed_fired = reset_timer'.finished]
    /\ pc' = "handle_rx_collision"
    /\ UNCHANGED <<frame, elapsed, delta, keyR, base, budget, events>>

----------------------------------------------------------------------------
(* handle_rx_collision (main.rs:279-339) *)

\* GlobalTransform of a particle: its transmitter's translation plus its own
\* (the transmitter is neither rotated nor scaled).
GlobalX(p) == tx[p.parent].x + p.x
GlobalY(p) == tx[p.parent].y + p.y

\* main.rs:290-298
CollisionTest(px, py, r) ==
    LET rx_right_bound  == r.x + RECEIVER_WIDTH * Milli
        rx_top_bound    == r.y + (RECEIVER_HEIGHT \div 4) * Milli
        rx_bottom_bound == r.y - (RECEIVER_HEIGHT \div 4) * Milli
    IN py < rx_top_bound /\ py > rx_bottom_bound /\ px < rx_right_bound

Collides(p, r) == CollisionTest(GlobalX(p), GlobalY(p), r)

\* Mutant of PlotFull: the cursor at the receiver's edge counts as past it.
PlotFullAtEdge(current_draw_position) ==
    current_draw_position >= 2 * RECEIVER_WIDTH * Milli

\* main.rs:306: the receiver has plotted over its entire width
PlotFull(current_draw_position) ==
    current_draw_position > 2 * RECEIVER_WIDTH * Milli

\* Mutant of Plotted: prev_collision_time is overwritten before the cursor
\* is advanced.
PlottedPrevFirst(r, t) ==
    [r EXCEPT !.current_draw_position =
                  @ + RECEIVER_DELTA_X_PER_SECOND * (t - t),
              !.prev_collision_time = t,
              !.first_collision_time = IF @ = None THEN t ELSE @]

\* main.rs:329-335: the receiver's fields after a plotted collision at time t
Plotted(r, t) ==
    LET prev == IF r.prev_collision_time = None THEN t ELSE r.prev_collision_time
    IN [r EXCEPT !.current_draw_position =
                     @ + RECEIVER_DELTA_X_PER_SECOND * (t - prev),
                 !.prev_collision_time = t,
                 !.first_collision_time = IF @ = None THEN t ELSE @]

\* main.rs:313-327: the plot point of a collision
NewPlot(r_id, r, y) ==
    [parent |-> r_id, x |-> RECEIVER_WIDTH * Milli - r.current_draw_position,
     y |-> y, frame |-> frame]

\* Mutant of CollisionDespawn: a full receiver is skipped before the despawn.
CollisionDespawnUnlessFull(p, full) == IF full THEN {} ELSE {p}

\* main.rs:301-304: the particle is detached and despawned before the
\* receiver's plot cursor is looked at.
CollisionDespawn(p, full) == {p}

ChildrenOf(children, parent) == {c \in DOMAIN children : children[c].parent = parent}

\* The body of the two nested loops for particle p and receiver r, on the
\* working state w (receivers are updated in place, commands accumulate).
CollideStep(w, p, r) ==
    LET part == particles[p]
        rec  == w.rx[r]
    IN IF ~Collides(part, rec) THEN w
       ELSE LET t == elapsed
                y == part.y
                full == PlotFull(rec.current_draw_position)
                rec1 == IF full THEN [rec EXCEPT !.mover = "NoMover"]
                        ELSE Plotted(rec, t)
                plots1 == IF full THEN w.plots
                          ELSE w.plots @@ (w.nextId :> NewPlot(r, rec, y))
                ev == [p |-> p, r |-> r,
                       cdp_before |-> rec.current_draw_position,
                       cdp_after |-> rec1.current_draw_position,
                       prev_before |-> rec.prev_collision_time,
                       prev_after |-> rec1.prev_collision_time,
                       plots_before |-> ChildrenOf(w.plots, r),
                       plots_after |-> ChildrenOf(plots1, r),
                       mover_before |-> rec.mover,
                       mover_after |-> rec1.mover]
            IN [rx |-> [w.rx EXCEPT ![r] = rec1],
                plots |-> plots1,
                nextId |-> IF full THEN w.nextId ELSE w.nextId + 1,
                despawned |-> w.despawned \cup CollisionDespawn(p, full),
                events |-> Append(w.events, ev)]

\* The loops over the pairs <<particle, receiver>> from index i on.  The
\* collision test reads nothing the loop body writes, so the pairs that fail
\* it are left out beforehand (CollisionPairs).
RECURSIVE Collide(_, _, _)
Collide(w, pairs, i) ==
    IF i > Len(pairs) THEN w
    ELSE Collide(CollideStep(w, pairs[i][1], pairs[i][2]), pairs, i + 1)

\* The pairs <<particle, receiver>> that pass the collision test, in the
\* loops' order: particles outside, receivers inside, each in spawn order.
PairBefore(g, h) == g[1] < h[1] \/ (g[1] = h[1] /\ g[2] < h[2])

CollisionPairs ==
    LET hits == {pr \in (DOMAIN particles) \X (DOMAIN rx) :
                    Collides(particles[pr[1]], rx[pr[2]])}
    IN [n \in 1 .. Cardinality(hits) |->
           CHOOSE h \in hits : Cardinality({g \in hits : PairBefore(g, h)}) = n - 1]

handle_rx_collision ==
    /\ pc = "handle_rx_collision"
    /\ LET w0 == [rx |-> rx, plots |-> plots, nextId |-> nextId,
                  despawned |-> {}, events |-> << >>]
           w  == Collide(w0, CollisionPairs, 1)
       IN /\ rx' = w.rx
          /\ plots' = w.plots
          /\ nextId' = w.nextId
          /\ particles' = Restrict(particles, DOMAIN particles \ w.despawned)
          /\ events' = w.events
    /\ pc' = "frame_start"
    /\ UNCHANGED <<frame, elapsed, delta, keyR, base, budget, reset_timer, tx, stats>>

----------------------------------------------------------------------------
(* Specifications *)

Next ==
    \/ BeginFrame
    \/ propagate_particle
    \/ produce_particle
    \/ move_rx
    \/ reset_simulation
    \/ reset_simulation_timer
    \/ handle_rx_collision

\* Short runs with irregular frames and key presses.
Spec == Init /\ [][Next]_vars

\* Runs long enough for particles to reach the receivers and for a receiver
\* to plot over its entire width; the R key is not touched.
InitMid ==
    /\ InitWorld
    /\ base \in BaseDeltas
    /\ budget = [frames |-> MaxMidFrames, jitter |-> MaxJitter, keys |-> 0]

SpecMid == InitMid /\ [][Next]_vars

\* Runs of regular frames long enough for the reset timer to finish twice.
InitLong ==
    /\ InitWorld
    /\ base \in BaseDeltas
    /\ budget = [frames |-> MaxLongFrames, jitter |-> 0, keys |-> MaxKeyFrames]

SpecLong == InitLong /\ [][Next]_vars

----------------------------------------------------------------------------
(* Claims *)

Entities == DOMAIN tx \cup DOMAIN rx \cup DOMAIN particles \cup DOMAIN plots

\* C3 (horizontal motion law): once propagate_particle has run in a frame,
\* every particle's x-position equals x0 + v * (t - t0): its spawn x plus its
\* speed times the frame time elapsed since the frame it was spawned in,
\* however that time was split into frames.
C3_HorizontalLaw ==
    pc # "propagate_particle" =>
        \A i \in DOMAIN particles :
            LET p == particles[i]
            IN p.x = tx[p.parent].spawn_point[1] + p.speed * (elapsed - p.t0)

\* C3 witness: a particle that has been moved over at least two frames of
\* different lengths.
C3_Witness ==
    /\ pc = "produce_particle"
    /\ \E i \in DOMAIN particles :
          /\ elapsed - particles[i].t0 > base
          /\ (elapsed - particles[i].t0) % base # 0
          /\ particles[i].x < 0

\* The y the motion law ascribes to a particle at position x and time t.
LawY(p, x, t) == p.amplitude * SinMilli(WavePhase(x, t, p.frequency, p.speed))

\* C4 (vertical motion law): right after propagate_particle has run at elapsed
\* time t, every particle's y equals +A*sin(k*x - 2*pi*f*t) or
\* -A*sin(k*x - 2*pi*f*t), where x is the x-position the particle has after
\* this frame's update.
C4_VerticalLaw ==
    pc = "produce_particle" =>
        \A i \in DOMAIN particles :
            LET p == particles[i]
            IN p.y = LawY(p, p.x, elapsed) \/ p.y = -LawY(p, p.x, elapsed)

\* C6 as claimed: every particle's amplitude, frequency and speed are
\* strictly greater than zero.
C6_AllPositive ==
    \A i \in DOMAIN particles :
        /\ particles[i].amplitude > 0
        /\ particles[i].frequency > 0
        /\ particles[i].speed > 0

\* C6 (amended): every particle's amplitude and frequency are strictly
\* positive and its speed is strictly negative (it travels towards -x), and
\* none of the three changes between the particle's creation and its
\* destruction.
C6_ConstantParameters ==
    [][\A i \in DOMAIN particles' :
          /\ particles'[i].amplitude > 0
          /\ particles'[i].frequency > 0
          /\ particles'[i].speed < 0
          /\ i \in DOMAIN particles =>
                /\ particles'[i].amplitude = particles[i].amplitude
                /\ particles'[i].frequency = particles[i].frequency
                /\ particles'[i].speed = particles[i].speed]_vars

\* C6 witness: a particle that has been propagated in at least two frames.
C6_Witness ==
    /\ pc = "frame_start"
    /\ \E i \in DOMAIN particles :
          /\ elapsed - particles[i].t0 >= 2 * base
          /\ particles[i].speed = PARTICLE_SPEED

\* C7 (periodic emission): produce_particle advances every transmitter's
\* repeating 10 ms timer by the frame delta; a transmitter gets a new particle
\* in a frame iff its timer finished during this tick, that is iff the time it
\* has been ticked for crossed a multiple of 10 ms; it gets exactly one, however
\* many periods the delta spans; the particle is its child, placed at its
\* spawn_point.  No other system creates particles.
C7_PeriodicEmission ==
    [][IF pc = "produce_particle"
       THEN /\ DOMAIN tx' = DOMAIN tx
            /\ DOMAIN particles \subseteq DOMAIN particles'
            /\ \A i \in DOMAIN particles' \ DOMAIN particles :
                  particles'[i].parent \in DOMAIN tx
            /\ \A t \in DOMAIN tx :
                  LET born == {i \in DOMAIN particles' \ DOMAIN particles :
                                  particles'[i].parent = t}
                      crossed == (tx[t].ticked + delta) \div PARTICLE_SPAWN_RATE_MS
                                     > tx[t].ticked \div PARTICLE_SPAWN_RATE_MS
                  IN /\ tx'[t].spawn_rate.elapsed =
                            (tx[t].spawn_rate.elapsed + delta) % PARTICLE_SPAWN_RATE_MS
                     /\ tx'[t].spawn_rate.finished = crossed
                     /\ Cardinality(born) = IF crossed THEN 1 ELSE 0
                     /\ \A i \in born :
                           /\ particles'[i].x = tx[t].spawn_point[1]
                           /\ particles'[i].y = tx[t].spawn_point[2]
       ELSE DOMAIN particles' \subseteq DOMAIN particles]_vars

\* C7 witness: a frame whose delta spans several spawn periods has just given
\* every transmitter exactly one particle.
C7_Witness ==
    /\ pc = "move_rx"
    /\ delta >= 2 * PARTICLE_SPAWN_RATE_MS
    /\ \A t \in DOMAIN tx :
          Cardinality({i \in DOMAIN particles :
                          particles[i].parent = t /\ particles[i].t0 = elapsed}) = 1

\* The collision test as C8 states it, on particle i and receiver r.
C8_Hits(i, r) ==
    LET p  == particles[i]
        gx == tx[p.parent].x + p.x
        gy == tx[p.parent].y + p.y
    IN /\ rx[r].y - (RECEIVER_HEIGHT * Milli) \div 4 < gy
       /\ gy < rx[r].y + (RECEIVER_HEIGHT * Milli) \div 4
       /\ gx < rx[r].x + RECEIVER_WIDTH * Milli

\* C8 (collision handling): handle_rx_collision despawns, in that frame, every
\* particle whose global position passes a receiver's collision test; a
\* collision that finds the receiver with current_draw_position >
\* 2*RECEIVER_WIDTH adds no plot point, leaves current_draw_position and
\* prev_collision_time unchanged and removes the receiver's Mover; any other
\* collision adds exactly one plot point as a child of the receiver.  A
\* receiver without Mover does not move and gets no Mover back.
C8_CollisionHandling ==
    [][/\ pc = "handle_rx_collision" =>
            /\ \A i \in DOMAIN particles :
                  (\E r \in DOMAIN rx : C8_Hits(i, r)) <=> i \notin DOMAIN particles'
            /\ {<<events'[k].p, events'[k].r>> : k \in 1 .. Len(events')} =
                  {pr \in (DOMAIN particles) \X (DOMAIN rx) : C8_Hits(pr[1], pr[2])}
            /\ DOMAIN plots' \ DOMAIN plots =
                  UNION {events'[k].plots_after \ events'[k].plots_before :
                            k \in 1 .. Len(events')}
            /\ \A k \in 1 .. Len(events') :
                  LET e == events'[k]
                  IN IF e.cdp_before > 2 * RECEIVER_WIDTH * Milli
                     THEN /\ e.plots_after = e.plots_before
                          /\ e.cdp_after = e.cdp_before
                          /\ e.prev_after = e.prev_before
                          /\ e.mover_after = "NoMover"
                          /\ rx'[e.r].mover = "NoMover"
                     ELSE /\ e.plots_before \subseteq e.plots_after
                          /\ Cardinality(e.plots_after \ e.plots_before) = 1
                          /\ \A q \in e.plots_after \ e.plots_before :
                                q \in DOMAIN plots' /\ plots'[q].parent = e.r
       /\ \A r \in DOMAIN rx \cap DOMAIN rx' :
             rx[r].mover = "NoMover" =>
                rx'[r].mover = "NoMover" /\ rx'[r].x = rx[r].x]_vars

\* C8 witness: the last frame's collisions include one that found a moving
\* receiver's plot full (its Mover was removed) and one that was plotted.
C8_Witness ==
    /\ pc = "frame_start"
    /\ \E k \in 1 .. Len(events) :
          /\ events[k].cdp_before > 2 * RECEIVER_WIDTH * Milli
          /\ events[k].mover_before # "NoMover"
          /\ rx[events[k].r].mover = "NoMover"
    /\ \E k \in 1 .. Len(events) :
          events[k].cdp_before <= 2 * RECEIVER_WIDTH * Milli

\* The parts of C9 that hold: a receiver's cursor is 0 until its first
\* collision and afterwards RECEIVER_DELTA_X_PER_SECOND * (time of its most
\* recent plotted collision - time of its first collision); every plot point
\* lies within [-RECEIVER_WIDTH, RECEIVER_WIDTH].
C9_Cursor ==
    /\ \A r \in DOMAIN rx :
          IF rx[r].prev_collision_time = None
          THEN rx[r].current_draw_position = 0 /\ rx[r].first_collision_time = None
          ELSE rx[r].current_draw_position =
                  RECEIVER_DELTA_X_PER_SECOND *
                      (rx[r].prev_collision_time - rx[r].first_collision_time)
    /\ \A q \in DOMAIN plots :
          /\ -(RECEIVER_WIDTH * Milli) <= plots[q].x
          /\ plots[q].x <= RECEIVER_WIDTH * Milli

\* A step never decreases the cursor of a receiver it keeps, and every plot
\* point it adds is placed at RECEIVER_WIDTH - current_draw_position, the
\* cursor being read when the collision is handled.
C9_Step ==
    /\ \A r \in DOMAIN rx \cap DOMAIN rx' :
          rx'[r].current_draw_position >= rx[r].current_draw_position
    /\ pc = "handle_rx_collision" =>
          \A k \in 1 .. Len(events') :
             \A q \in events'[k].plots_after \ events'[k].plots_before :
                plots'[q].x = RECEIVER_WIDTH * Milli - events'[k].cdp_before

\* Plot points a and b belong to the same receiver and the same frame.
SameFrame(a, b) == plots[a].parent = plots[b].parent /\ plots[a].frame = plots[b].frame

InitialTx == {StartTx(0)[t] : t \in DOMAIN StartTx(0)}
InitialRx == {StartRx(0)[r] : r \in DOMAIN StartRx(0)}

\* C1 (manual reset): in a frame in which R is down, once reset_simulation's
\* commands are applied and for the rest of the frame, no entity created
\* before the reset remains (transmitters, receivers, particles, plot
\* points), the transmitters and receivers are the initial set, and every
\* receiver has prev_collision_time = None and current_draw_position = 0.
C1_ManualReset ==
    (keyR /\ pc \in {"reset_simulation_timer", "handle_rx_collision", "frame_start"}) =>
        /\ \A i \in Entities : i >= stats.id_at_reset
        /\ Cardinality(DOMAIN tx) = Cardinality(InitialTx)
        /\ Cardinality(DOMAIN rx) = Cardinality(InitialRx)
        /\ {tx[t] : t \in DOMAIN tx} = InitialTx
        /\ {rx[r] : r \in DOMAIN rx} = InitialRx
        /\ DOMAIN particles = {}
        /\ DOMAIN plots = {}
        /\ \A r \in DOMAIN rx :
              /\ rx[r].prev_collision_time = None
              /\ rx[r].current_draw_position = 0

\* C1 witness: the end of a frame in which R was down and the reset despawned
\* signal particles and plot points.
C1_Witness ==
    /\ keyR
    /\ pc = "frame_start"
    /\ stats.manual_removed.particles > 0
    /\ stats.manual_removed.plots > 0

\* A particle's global position lies outside the RES_WIDTH x RES_HEIGHT canvas.
OffScreen(p, txs) ==
    LET gx == txs[p.parent].x + p.x
        gy == txs[p.parent].y + p.y
    IN \/ 2 * gx < -(RES_WIDTH * Milli) \/ 2 * gx > RES_WIDTH * Milli
       \/ 2 * gy < -(RES_HEIGHT * Milli) \/ 2 * gy > RES_HEIGHT * Milli

\* C2 as claimed: a particle is destroyed only on off-screen exit or on
\* receiver collision, and one that is off-screen without passing a collision
\* test is destroyed in that frame.
C2_CollisionOrOffScreen ==
    [][/\ \A i \in DOMAIN particles \ DOMAIN particles' :
             \/ \E r \in DOMAIN rx : C8_Hits(i, r)
             \/ OffScreen(particles[i], tx)
       /\ pc = "handle_rx_collision" =>
             \A i \in DOMAIN particles :
                OffScreen(particles[i], tx) => i \notin DOMAIN particles']_vars

\* C2 (amended): a particle is destroyed either by handle_rx_collision, when
\* it passes a receiver's collision test, or by a manual or timed reset that
\* despawns its transmitter; every particle that passes a collision test is
\* destroyed in that frame, every child of a despawned transmitter is
\* destroyed with it; no particle is ever off-screen.
C2_ParticleLifecycle ==
    [][/\ \A i \in DOMAIN particles \ DOMAIN particles' :
             \/ pc = "handle_rx_collision" /\ \E r \in DOMAIN rx : C8_Hits(i, r)
             \/ /\ pc \in {"reset_simulation", "reset_simulation_timer"}
                /\ particles[i].parent \notin DOMAIN tx'
       /\ pc = "handle_rx_collision" =>
             \A i \in DOMAIN particles :
                (\E r \in DOMAIN rx : C8_Hits(i, r)) => i \notin DOMAIN particles'
       /\ \A i \in DOMAIN particles :
             particles[i].parent \notin DOMAIN tx' => i \notin DOMAIN particles'
       /\ \A i \in DOMAIN particles' : ~OffScreen(particles'[i], tx')]_vars

\* C2 witness: particles have been destroyed by a reset, and the last frame
\* destroyed one by collision, also at a receiver whose plot was full.
C2_Witness ==
    /\ pc = "frame_start"
    /\ stats.reset_removed > 0
    /\ \E k \in 1 .. Len(events) :
          /\ events[k].p \notin DOMAIN particles
          /\ events[k].cdp_before > 2 * RECEIVER_WIDTH * Milli

\* What C5 says of the lifecycle: transmitters and receivers change only in a
\* reset step, a reset step replaces all of them, and no frame ends with 10 s
\* or more of frame time since the last frame with a reset.
C5_Lifecycle ==
    LET changed == DOMAIN tx' # DOMAIN tx \/ DOMAIN rx' # DOMAIN rx
        resets  == \/ pc = "reset_simulation" /\ keyR
                   \/ pc = "reset_simulation_timer" /\ stats'.timed_fired
    IN /\ changed => resets
       /\ resets => /\ DOMAIN tx' \cap DOMAIN tx = {}
                    /\ DOMAIN rx' \cap DOMAIN rx = {}
                    /\ DOMAIN tx' # {}
                    /\ DOMAIN rx' # {}
       /\ stats'.since_reset < RESET_TIMER_MS

\* C5 as claimed: the lifecycle, and the timed reset fires in exactly the
\* frames in which the frame time accumulated since startup, the previous
\* timed reset or the last frame with R down reaches 10 s.
C5_TenSecondsSinceReset ==
    [][/\ C5_Lifecycle
       /\ pc = "reset_simulation_timer" =>
             (DOMAIN tx' # DOMAIN tx <=> stats.acc + delta >= RESET_TIMER_MS)]_vars

\* C5 (amended): the lifecycle, and the timed reset fires in exactly the
\* frames in which the frame time accumulated since startup or the last frame
\* with R down (that frame's delta included) crosses a multiple of 10 s: the
\* repeating timer keeps what a tick overshoots, so a timed reset can follow
\* the previous timed reset by less than 10 s.
C5_ResetSchedule ==
    [][/\ C5_Lifecycle
       /\ pc = "reset_simulation_timer" =>
             (DOMAIN tx' # DOMAIN tx <=>
                 (stats.since_key + delta) \div RESET_TIMER_MS
                     > stats.since_key \div RESET_TIMER_MS)]_vars

\* C5 witness: the second timed reset has fired less than 10 s of frame time
\* after the first.
C5_Witness ==
    /\ pc = "handle_rx_collision"
    /\ stats.timed_fired
    /\ stats.timed_resets >= 2
    /\ stats.last_gap < RESET_TIMER_MS

\* C10 (population): at the end of startup and of every frame there are
\* exactly three transmitters and three receivers, one of each per row
\* y = 200, 0, -200, and no despawn command has named a dead entity.
C10_Population ==
    pc = "frame_start" =>
        /\ Cardinality(DOMAIN tx) = 3
        /\ Cardinality(DOMAIN rx) = 3
        /\ {tx[t].y : t \in DOMAIN tx} = {200 * Milli, 0, -200 * Milli}
        /\ {rx[r].y : r \in DOMAIN rx} = {200 * Milli, 0, -200 * Milli}
        /\ ~stats.double_despawn

\* C10 witness: the end of a frame in which R was down for the second frame
\* in a row, in a run in which the timed reset has fired.
C10_Witness ==
    /\ pc = "frame_start"
    /\ stats.key_streak >= 2
    /\ stats.timed_resets >= 1
    /\ stats.manual_resets >= 2

====
